---- MODULE Spec2Model ----
(***************************************************************************)
(* A model of viber.py: the shadow-copy store (ShadowCopyManager), the     *)
(* change log (ChangeDatabase) and the event handler (FileChangeHandler)   *)
(* with its processing guard, filter, line diff and magnitude tag.         *)
(*                                                                         *)
(* Texts are sequences of one-character strings, so that splitlines,       *)
(* startswith and the byte size are computed and not assumed.  All         *)
(* characters of the model are ASCII: one character is one byte.           *)
(***************************************************************************)
EXTENDS Integers, Sequences, FiniteSets, TLC

\* Python's Optional: None, or a value x as Some(x); Val takes it out.
None == <<>>
Some(x) == <<x>>
Val(o) == o[1]

(***************************************************************************)
(* Generic helpers on sequences.                                           *)
(***************************************************************************)
Max2(x, y) == IF x >= y THEN x ELSE y

\* s[lo .. hi-1], Python's s[lo:hi] on 1-based positions lo <= hi.
Slice(s, lo, hi) == [k \in 1..(hi - lo) |-> s[lo + k - 1]]

\* Python's str.startswith(prefix).
StartsWith(s, prefix) ==
    /\ Len(s) >= Len(prefix)
    /\ \A k \in 1..Len(prefix) : s[k] = prefix[k]

RECURSIVE Concat(_)
\* ''.join(parts) for a sequence of sequences.
Concat(parts) ==
    IF parts = <<>> THEN <<>> ELSE Head(parts) \o Concat(Tail(parts))

\* All sequences over S of length at most n.
SeqsUpTo(S, n) == UNION {[1..k -> S] : k \in 0..n}

(***************************************************************************)
(* str.splitlines(keepends=True), for texts whose only line terminator is  *)
(* "\n": each line keeps its terminator, a last line without one is kept.  *)
(***************************************************************************)
RECURSIVE SplitFrom(_, _, _)
SplitFrom(text, start, k) ==
    IF k > Len(text)
    THEN IF start > Len(text) THEN <<>> ELSE <<Slice(text, start, Len(text) + 1)>>
    ELSE IF text[k] = "\n"
         THEN <<Slice(text, start, k + 1)>> \o SplitFrom(text, k + 1, k + 1)
         ELSE SplitFrom(text, start, k + 1)

SplitLines(text) == SplitFrom(text, 1, 1)

\* os.path.getsize of a file holding `text`.
ByteSize(text) == Len(text)

(***************************************************************************)
(* difflib.SequenceMatcher on two sequences of lines (no junk: isjunk is   *)
(* None and the autojunk heuristic only applies from 200 lines on).        *)
(* Positions are 1-based and ranges are half open, [lo, hi).               *)
(***************************************************************************)
RECURSIVE CommonSuffix(_, _, _, _, _, _)
\* The k that find_longest_match stores in newj2len[j] at row i: the length
\* of the longest common run of a[alo..i] and b[blo..j] that ends at (i, j).
CommonSuffix(a, b, alo, blo, i, j) ==
    IF a[i] /= b[j] THEN 0
    ELSE IF i > alo /\ j > blo
         THEN 1 + CommonSuffix(a, b, alo, blo, i - 1, j - 1)
         ELSE 1

\* SequenceMatcher.find_longest_match: the longest matching block; of
\* several, the one found first, scanning i upwards and for each i the
\* positions j of a[i] in b upwards (bestsize is replaced only by k > bestsize).
FindLongestMatch(a, b, alo, ahi, blo, bhi) ==
    LET cells == (alo..(ahi - 1)) \X (blo..(bhi - 1))
        k(c) == CommonSuffix(a, b, alo, blo, c[1], c[2])
        hits == {c \in cells : k(c) > 0}
    IN  IF hits = {}
        THEN [i |-> alo, j |-> blo, size |-> 0]
        ELSE LET best == CHOOSE c \in hits :
                            \A d \in hits :
                                \/ k(d) < k(c)
                                \/ /\ k(d) = k(c)
                                   /\ \/ c[1] < d[1]
                                      \/ c[1] = d[1] /\ c[2] <= d[2]
             IN  [i |-> best[1] - k(best) + 1,
                  j |-> best[2] - k(best) + 1,
                  size |-> k(best)]

\* One line of a diff body: the prefix difflib puts before it, and the line.
Tagged(op, lines) == [n \in 1..Len(lines) |-> [op |-> op, line |-> lines[n]]]

RECURSIVE DiffBody(_, _, _, _, _, _)
\* get_matching_blocks and get_opcodes together: the longest block splits the
\* range, what lies left and right of it is matched in the same way, and a
\* range with no match gives its a-lines as '-' and then its b-lines as '+'
\* (the opcodes replace / delete / insert); a matching block gives ' ' lines.
DiffBody(a, b, alo, ahi, blo, bhi) ==
    LET m == FindLongestMatch(a, b, alo, ahi, blo, bhi)
    IN  IF m.size = 0
        THEN Tagged("-", Slice(a, alo, ahi)) \o Tagged("+", Slice(b, blo, bhi))
        ELSE DiffBody(a, b, alo, m.i, blo, m.j)
             \o Tagged(" ", Slice(a, m.i, m.i + m.size))
             \o DiffBody(a, b, m.i + m.size, ahi, m.j + m.size, bhi)

\* The n of unified_diff(a, b, n=3): lines of context kept around a change.
ContextLines == 3

\* get_grouped_opcodes(n): a ' ' line is kept when a changed line lies at
\* most n lines before or after it.
KeptInHunk(body, k) ==
    \/ body[k].op /= " "
    \/ \E d \in 1..ContextLines :
          \/ k - d >= 1 /\ body[k - d].op /= " "
          \/ k + d <= Len(body) /\ body[k + d].op /= " "

RECURSIVE RenderHunks(_, _, _)
\* The lines of the hunks: a '@@' header where a group starts (at the first
\* kept line and after every dropped stretch of context), then the prefixed
\* lines.  The numbers of the '@@' header are left out.
RenderHunks(body, k, open) ==
    IF k > Len(body) THEN <<>>
    ELSE IF ~KeptInHunk(body, k) THEN RenderHunks(body, k + 1, FALSE)
         ELSE (IF open THEN <<>> ELSE << <<"@", "@">> >>)
              \o << <<body[k].op>> \o body[k].line >>
              \o RenderHunks(body, k + 1, TRUE)

\* difflib.unified_diff(a, b, lineterm=''): nothing when the sequences are
\* equal, else the two file header lines and the hunks.
UnifiedDiff(a, b) ==
    LET body == DiffBody(a, b, 1, Len(a) + 1, 1, Len(b) + 1)
    IN  IF \A k \in 1..Len(body) : body[k].op = " "
        THEN <<>>
        ELSE << <<"-", "-", "-", " ">>, <<"+", "+", "+", " ">> >>
             \o RenderHunks(body, 1, FALSE)

\* The test of the loop in _compute_diff that counts a line as added.
CountsAsAdded(line) ==
    StartsWith(line, <<"+">>) /\ ~StartsWith(line, <<"+", "+", "+">>)

\* The test that counts a line as deleted (the elif branch).
CountsAsDeleted(line) ==
    /\ ~CountsAsAdded(line)
    /\ StartsWith(line, <<"-">>) /\ ~StartsWith(line, <<"-", "-", "-">>)

\* FileChangeHandler._compute_diff: <<added, deleted>>.
ComputeDiff(old_content, new_content) ==
    LET diff == UnifiedDiff(SplitLines(old_content), SplitLines(new_content))
    IN  << Cardinality({k \in 1..Len(diff) : CountsAsAdded(diff[k])}),
           Cardinality({k \in 1..Len(diff) : CountsAsDeleted(diff[k])}) >>

(***************************************************************************)
(* The magnitude tag of _process_modification, for integer sizes.          *)
(* size_before * 0.5 and size_before * 2 are exact for sizes below 2^53,   *)
(* so the comparisons are made on integers.  `elif size_before` is the     *)
(* truth value of an integer: size_before /= 0.                            *)
(***************************************************************************)
NoTag == [tag |-> "", bytes |-> 0]

\* Magnitude with the deletion rule tried before the zeroed-out rule.
MagnitudeDeletionFirst(size_before, size_after) ==
    IF size_before /= 0 /\ 2 * size_after < size_before
    THEN [tag |-> "LARGE DELETION", bytes |-> size_before - size_after]
    ELSE IF size_after = 0 /\ size_before > 0
    THEN [tag |-> "FILE ZEROED OUT", bytes |-> 0]
    ELSE IF size_before /= 0 /\ size_after > size_before * 2
    THEN [tag |-> "LARGE ADDITION", bytes |-> size_after - size_before]
    ELSE NoTag

Magnitude(size_before, size_after) ==
    IF size_after = 0 /\ size_before > 0
    THEN [tag |-> "FILE ZEROED OUT", bytes |-> 0]
    ELSE IF size_before /= 0 /\ 2 * size_after < size_before
    THEN [tag |-> "LARGE DELETION", bytes |-> size_before - size_after]
    ELSE IF size_before /= 0 /\ size_after > size_before * 2
    THEN [tag |-> "LARGE ADDITION", bytes |-> size_after - size_before]
    ELSE NoTag

(***************************************************************************)
(* ChangeDatabase.record_change: the row it inserts into file_changes.     *)
(* The id and the timestamp of a row are its position in the table; the    *)
(* two sizes are Optional.                                                 *)
(***************************************************************************)
\* Row with size_change taken the wrong way round.
RowSizeChangeSwapped(file_path, event_type, size_before, size_after, lines_added, lines_deleted) ==
    [file_path     |-> file_path,
     event_type    |-> event_type,
     size_before   |-> size_before,
     size_after    |-> size_after,
     size_change   |-> IF size_before /= None /\ size_after /= None
                       THEN Some(Val(size_before) - Val(size_after))
                       ELSE None,
     lines_added   |-> lines_added,
     lines_deleted |-> lines_deleted,
     lines_changed |-> lines_added + lines_deleted]

Row(file_path, event_type, size_before, size_after, lines_added, lines_deleted) ==
    [file_path     |-> file_path,
     event_type    |-> event_type,
     size_before   |-> size_before,
     size_after    |-> size_after,
     size_change   |-> IF size_before /= None /\ size_after /= None
                       THEN Some(Val(size_after) - Val(size_before))
                       ELSE None,
     lines_added   |-> lines_added,
     lines_deleted |-> lines_deleted,
     lines_changed |-> lines_added + lines_deleted]

(***************************************************************************)
(* pathlib's Path(p).parts of an absolute path, given as its characters, is *)
(* the root "/" followed by the non-empty segments between "/".            *)
(***************************************************************************)
RECURSIVE Segments(_, _, _)
Segments(path, start, k) ==
    IF k > Len(path)
    THEN IF start > Len(path) THEN <<>> ELSE <<Slice(path, start, Len(path) + 1)>>
    ELSE IF path[k] = "/"
         THEN (IF start < k THEN <<Slice(path, start, k)>> ELSE <<>>)
              \o Segments(path, k + 1, k + 1)
         ELSE Segments(path, start, k + 1)

PathParts(path) ==
    (IF StartsWith(path, <<"/">>) THEN << <<"/">> >> ELSE <<>>)
    \o Segments(path, 1, 1)

\* The set `excluded` of _should_process.
excluded ==
    { <<".", "g", "i", "t">>,
      <<"_", "_", "p", "y", "c", "a", "c", "h", "e", "_", "_">>,
      <<"n", "o", "d", "e", "_", "m", "o", "d", "u", "l", "e", "s">>,
      <<".", "v", "i", "b", "e", "r", "_", "s", "h", "a", "d", "o", "w">>,
      <<".", "v", "i", "b", "e", "r", ".", "d", "b">>,
      <<"v", "e", "n", "v">>,
      <<".", "e", "n", "v">> }

\* The paths of the model: a path is written as a string, and Chars gives
\* its characters.  The watched directory is /w.
Chars(path) ==
    LET w == <<"/", "w", "/">>
        a == <<"/", "a">>
    IN  CASE path = "/w/a" -> w \o <<"a">>
          [] path = "/w/.git/a" -> w \o <<".", "g", "i", "t">> \o a
          [] path = "/w/__pycache__/a" ->
                w \o <<"_", "_", "p", "y", "c", "a", "c", "h", "e", "_", "_">> \o a
          [] path = "/w/node_modules/a" ->
                w \o <<"n", "o", "d", "e", "_", "m", "o", "d", "u", "l", "e", "s">> \o a
          [] path = "/w/.viber_shadow/a" ->
                w \o <<".", "v", "i", "b", "e", "r", "_", "s", "h", "a", "d", "o", "w">> \o a
          [] path = "/w/.viber.db" ->
                w \o <<".", "v", "i", "b", "e", "r", ".", "d", "b">>
          [] path = "/w/venv/a" -> w \o <<"v", "e", "n", "v">> \o a
          [] path = "/w/.env" -> w \o <<".", "e", "n", "v">>
          [] path = "/w/.x" -> w \o <<".", "x">>
          [] path = "/w/.x/a" -> w \o <<".", "x">> \o a

\* HasExcludedPart without the test for hidden segments.
HasExcludedPartSetOnly(path_parts) ==
    \E k \in 1..Len(path_parts) : path_parts[k] \in excluded

\* any(part in excluded or part.startswith('.') for part in path_parts)
HasExcludedPart(path_parts) ==
    \E k \in 1..Len(path_parts) :
        \/ path_parts[k] \in excluded
        \/ StartsWith(path_parts[k], <<".">>)

(***************************************************************************)
(* The file system.  A file holds a sequence of bytes: ASCII characters    *)
(* and the byte BadByte, which is not valid UTF-8.                         *)
(***************************************************************************)
Absent == [kind |-> "absent"]
IsDir == [kind |-> "dir"]
File(bytes) == [kind |-> "file", bytes |-> bytes]
BadByte == "0xFF"

\* open(..., encoding='utf-8', errors='ignore').read(): invalid bytes are dropped.
DecodeIgnore(bytes) == SelectSeq(bytes, LAMBDA c : c /= BadByte)

\* The number of characters _should_process tries to read.
ProbeChars == 1024

\* open(..., encoding='utf-8').read(1024) raises UnicodeDecodeError.
ProbeFails(bytes) ==
    \E k \in 1..(IF Len(bytes) < ProbeChars THEN Len(bytes) ELSE ProbeChars) :
        bytes[k] = BadByte

(***************************************************************************)
(* Bounds of the model.                                                    *)
(***************************************************************************)
\* Steps of the environment in one run: events the watch service delivers
\* and writes other programs make to the watched files.
MaxEnv == 3
\* Lines of a text given to _compute_diff on its own.
MaxLines == 3
\* Largest file size given to the magnitude rules on their own.
MaxSize == 250

\* Threads that call on_modified / on_created.
Threads == {1, 2}

\* A path the filter lets through, and paths it excludes: one for each
\* segment of `excluded`, a hidden file and a file in a hidden directory.
PathA == "/w/a"
NormalPaths == {PathA}
ExcludedPaths ==
    { "/w/.git/a", "/w/__pycache__/a", "/w/node_modules/a", "/w/.viber_shadow/a",
      "/w/.viber.db", "/w/venv/a", "/w/.env", "/w/.x", "/w/.x/a" }
Paths == NormalPaths \cup ExcludedPaths

\* path_parts = Path(file_path).parts, line 165, for the paths of the model.
path_parts == [p \in Paths |-> PathParts(Chars(p))]

\* What a file of the model can hold.
Contents ==
    { <<>>,
      <<"a", "\n">>,
      <<"a", "\n", "b", "\n">>,
      <<BadByte>> }
FileValues == {Absent, IsDir} \cup {File(b) : b \in Contents}

\* What other programs leave at a normal path: they remove the file or
\* write one of these contents.
WrittenValues ==
    {Absent, File(<<"a", "\n">>), File(<<"a", "\n", "b", "\n">>), File(<<BadByte>>)}


VARIABLES
    file,        \* normal path -> Absent, IsDir or File(bytes)
    shadow,      \* the shadow directory: path with a shadow copy -> its bytes
    records,     \* the rows of file_changes, in insertion order
    processing,  \* FileChangeHandler.processing
    pc,          \* thread -> where it is in the handler
    loc,         \* thread -> the local variables of the running handler
    env,         \* steps the environment has taken so far
    probe,       \* input and output of a function applied on its own
    main         \* where main is: "running", "stopping", "joined", "closed"

vars == <<file, shadow, records, processing, pc, loc, env, probe, main>>

\* The locals of a handler that has not yet assigned any.  `arrived` is no
\* variable of the code: it keeps, from the call of on_modified to line 198,
\* what the watched file held when the event came in.
NoLocals ==
    [file_path     |-> "",
     kind          |-> "",
     size_after    |-> None,
     new_content   |-> None,
     has_shadow    |-> None,
     old_content   |-> None,
     size_before   |-> None,
     timestamp     |-> None,
     buffer        |-> <<>>,
     shadow_result |-> "",
     raised        |-> "",
     arrived       |-> None]

\* A first run: the watched file exists, the shadow directory and the
\* table file_changes are empty, no handler is running.
InitHandler ==
    /\ file = [p \in NormalPaths |-> File(<<"a", "\n">>)]
    /\ shadow = [p \in {} |-> <<>>]
    /\ records = <<>>
    /\ processing = {}
    /\ pc = [t \in Threads |-> "idle"]
    /\ loc = [t \in Threads |-> NoLocals]
    /\ env = 0
    /\ main = "running"

Init == InitHandler /\ probe = <<>>

\* Thread t moves on to `to`; thread t returns from the handler.
Goto(t, to) == pc' = [pc EXCEPT ![t] = to]
Return(t) ==
    /\ pc' = [pc EXCEPT ![t] = "idle"]
    /\ loc' = [loc EXCEPT ![t] = NoLocals]

\* The locals of l that the handler still reads once it has come to the
\* call of update_shadow / create_shadow; old_content and the two sizes are
\* not read again and are dropped.  new_content, has_shadow and timestamp
\* are kept to tell what the pass has done.
AtShadowCall(l) ==
    [l EXCEPT !.old_content = None, !.size_before = None, !.size_after = None]

\* An exception leaves on_modified / on_created: nothing in the handler
\* catches it, and the thread that called the handler ends with it.
Escape(t, what) ==
    /\ pc' = [pc EXCEPT ![t] = "raised"]
    /\ loc' = [loc EXCEPT ![t] = [NoLocals EXCEPT !.raised = what]]

(***************************************************************************)
(* The environment: the watch service and other programs.                  *)
(***************************************************************************)
\* What a system call finds at path p.  The files under the normal paths
\* are tracked in `file`; what lies at an excluded path is not tracked, and
\* each call may find anything there.
FsRead(p) == IF p \in DOMAIN file THEN {file[p]} ELSE FileValues

\* Threads are interchangeable: the watch service hands an event to the idle
\* thread of lowest number.
Dispatches(t) ==
    /\ pc[t] = "idle"
    /\ \A u \in Threads : pc[u] = "idle" => t <= u

\* Another program creates, rewrites or removes a watched file.
EnvWrite(p, v) ==
    /\ env < MaxEnv
    /\ file[p] /= v
    /\ file' = [file EXCEPT ![p] = v]
    /\ env' = env + 1
    /\ UNCHANGED <<shadow, records, processing, pc, loc, probe, main>>

\* on_modified(event), lines 280-283.
OnModified(t, p, is_directory) ==
    /\ Dispatches(t)
    /\ main = "running"
    /\ env < MaxEnv
    /\ env' = env + 1
    /\ IF is_directory
       THEN UNCHANGED <<pc, loc>>
       ELSE /\ Goto(t, "m_check")
            /\ loc' = [loc EXCEPT ![t] =
                          [NoLocals EXCEPT !.file_path = p, !.kind = "modified",
                                           !.arrived = IF p \in DOMAIN file
                                                       THEN Some(file[p])
                                                       ELSE None]]
    /\ UNCHANGED <<file, shadow, records, processing, probe, main>>

\* on_created(event), lines 285-289: the thread goes to sleep.
OnCreated(t, p, is_directory) ==
    /\ Dispatches(t)
    /\ main = "running"
    /\ env < MaxEnv
    /\ env' = env + 1
    /\ IF is_directory
       THEN UNCHANGED <<pc, loc>>
       ELSE /\ Goto(t, "c_sleep")
            /\ loc' = [loc EXCEPT ![t] =
                          [NoLocals EXCEPT !.file_path = p, !.kind = "created"]]
    /\ UNCHANGED <<file, shadow, records, processing, probe, main>>

(***************************************************************************)
(* FileChangeHandler._should_process, lines 158-177.                       *)
(***************************************************************************)
\* found: what os.path.isdir and open find at file_path.
ShouldProcess(file_path, found) ==
    /\ found /= IsDir
    /\ ~HasExcludedPart(path_parts[file_path])
    /\ found /= Absent
    /\ ~ProbeFails(found.bytes)

\* os.path.getsize(p) of an existing entry.  The size of a directory entry
\* depends on the file system; it is taken to be 0.
StatSize(v) == IF v = IsDir THEN 0 ELSE ByteSize(v.bytes)

(***************************************************************************)
(* FileChangeHandler._process_modification, lines 196-260, one action per  *)
(* statement that reads or writes the guard, the files, the shadow store   *)
(* or the database.  Threads interleave between these statements.          *)
(***************************************************************************)
\* line 198: if file_path in self.processing: return
MCheck(t) ==
    /\ pc[t] = "m_check"
    /\ IF loc[t].file_path \in processing
       THEN Return(t)
       ELSE Goto(t, "m_add") /\ loc' = [loc EXCEPT ![t].arrived = None]
    /\ UNCHANGED <<file, shadow, records, processing, env, probe, main>>

\* line 202: self.processing.add(file_path)
MAdd(t) ==
    /\ pc[t] = "m_add"
    /\ processing' = processing \cup {loc[t].file_path}
    /\ Goto(t, "m_filter")
    /\ UNCHANGED <<file, shadow, records, loc, env, probe, main>>

\* lines 204-205
MFilter(t) ==
    /\ pc[t] = "m_filter"
    /\ \E found \in FsRead(loc[t].file_path) :
          Goto(t, IF ShouldProcess(loc[t].file_path, found)
                  THEN "m_exists" ELSE "m_finally")
    /\ UNCHANGED <<file, shadow, records, processing, loc, env, probe, main>>

\* lines 208-209
MExists(t) ==
    /\ pc[t] = "m_exists"
    /\ \E found \in FsRead(loc[t].file_path) :
          Goto(t, IF found /= Absent THEN "m_size" ELSE "m_finally")
    /\ UNCHANGED <<file, shadow, records, processing, loc, env, probe, main>>

\* line 211: os.path.getsize raises FileNotFoundError when the file is gone;
\* the statement is outside the inner try, so only the finally clause runs.
MSize(t) ==
    /\ pc[t] = "m_size"
    /\ \E found \in FsRead(loc[t].file_path) :
          IF found = Absent
          THEN /\ Goto(t, "m_finally")
               /\ loc' = [loc EXCEPT ![t].raised = "FileNotFoundError"]
          ELSE /\ Goto(t, "m_read")
               /\ loc' = [loc EXCEPT ![t].size_after = Some(StatSize(found))]
    /\ UNCHANGED <<file, shadow, records, processing, env, probe, main>>

\* lines 214-219: an exception of open / read is caught and the pass returns.
MRead(t) ==
    /\ pc[t] = "m_read"
    /\ \E found \in FsRead(loc[t].file_path) :
          IF found \in {Absent, IsDir}
          THEN Goto(t, "m_finally") /\ UNCHANGED loc
          ELSE /\ Goto(t, "m_has")
               /\ loc' = [loc EXCEPT ![t].new_content = Some(DecodeIgnore(found.bytes))]
    /\ UNCHANGED <<file, shadow, records, processing, env, probe, main>>

\* ShadowCopyManager.has_shadow, lines 40-43.
HasShadow(file_path) == file_path \in DOMAIN shadow

\* Writing bytes to the shadow file of file_path, creating it if need be.
ShadowWrite(file_path, bytes) ==
    [p \in DOMAIN shadow \cup {file_path} |->
        IF p = file_path THEN bytes ELSE shadow[p]]

\* MHasShadow with update_shadow called only when a shadow copy was found.
MHasShadowSkipsUpdate(t) ==
    /\ pc[t] = "m_has"
    /\ IF HasShadow(loc[t].file_path)
       THEN /\ loc' = [loc EXCEPT ![t].has_shadow = Some(TRUE)]
            /\ Goto(t, "m_get_content")
       ELSE /\ loc' = [loc EXCEPT ![t] = AtShadowCall([@ EXCEPT !.has_shadow = Some(FALSE)])]
            /\ Goto(t, "m_finally")
    /\ UNCHANGED <<file, shadow, records, processing, env, probe, main>>

\* line 222; the else branch of line 252 goes straight to update_shadow.
MHasShadow(t) ==
    /\ pc[t] = "m_has"
    /\ IF HasShadow(loc[t].file_path)
       THEN /\ loc' = [loc EXCEPT ![t].has_shadow = Some(TRUE)]
            /\ Goto(t, "m_get_content")
       ELSE /\ loc' = [loc EXCEPT ![t] = AtShadowCall([@ EXCEPT !.has_shadow = Some(FALSE)])]
            /\ Goto(t, "s_exists")
    /\ UNCHANGED <<file, shadow, records, processing, env, probe, main>>

\* line 224 (get_shadow_content, lines 67-78): the content, or None when the
\* shadow copy is missing or reading it raises.
MGetContent(t) ==
    /\ pc[t] = "m_get_content"
    /\ \/ loc' = [loc EXCEPT ![t].old_content =
                     IF ~HasShadow(loc[t].file_path)
                     THEN None
                     ELSE Some(DecodeIgnore(shadow[loc[t].file_path]))]
       \/ loc' = [loc EXCEPT ![t].old_content = None]
    /\ Goto(t, "m_get_size")
    /\ UNCHANGED <<file, shadow, records, processing, env, probe, main>>

\* line 225 (get_shadow_size, lines 80-88) and the test of line 227.
MGetSize(t) ==
    /\ pc[t] = "m_get_size"
    /\ LET size_before == IF ~HasShadow(loc[t].file_path)
                           THEN None
                           ELSE Some(ByteSize(shadow[loc[t].file_path]))
       IN  IF loc[t].old_content /= None
           THEN /\ loc' = [loc EXCEPT ![t].size_before = size_before]
                /\ Goto(t, "m_record")
           ELSE /\ loc' = [loc EXCEPT ![t] = AtShadowCall(@)]
                /\ Goto(t, "s_exists")
    /\ UNCHANGED <<file, shadow, records, processing, env, probe, main>>

\* The row a modification pass records, lines 229 and 241-244.
ModifiedRow(l) ==
    LET d == ComputeDiff(Val(l.old_content), Val(l.new_content))
    IN  Row(l.file_path, "modified", l.size_before, l.size_after, d[1], d[2])

\* lines 229-251: the diff, the magnitude, record_change and the printing.
\* record_change either inserts the row or raises (sqlite3.Error); with
\* size_before None, line 233 or line 250 raises TypeError.  None of them is
\* caught: the finally clause runs and the exception leaves the handler.
MRecord(t) ==
    /\ pc[t] = "m_record"
    /\ \/ /\ loc[t].size_before = None /\ loc[t].size_after = Some(0)
          /\ loc' = [loc EXCEPT ![t].raised = "TypeError"]
          /\ Goto(t, "m_finally")
          /\ UNCHANGED records
       \/ /\ ~(loc[t].size_before = None /\ loc[t].size_after = Some(0))
          /\ loc' = [loc EXCEPT ![t].raised = "sqlite3.Error"]
          /\ Goto(t, "m_finally")
          /\ UNCHANGED records
       \/ /\ ~(loc[t].size_before = None /\ loc[t].size_after = Some(0))
          /\ records' = Append(records, ModifiedRow(loc[t]))
          /\ IF loc[t].size_before = None
             THEN /\ loc' = [loc EXCEPT ![t].timestamp = Some(Len(records) + 1),
                                        ![t].raised = "TypeError"]
                  /\ Goto(t, "m_finally")
             ELSE /\ loc' = [loc EXCEPT ![t] =
                                AtShadowCall([@ EXCEPT !.timestamp = Some(Len(records) + 1)])]
                  /\ Goto(t, "s_exists")
    /\ UNCHANGED <<file, shadow, processing, env, probe, main>>

(***************************************************************************)
(* ShadowCopyManager.create_shadow, lines 45-65, called by update_shadow   *)
(* (line 257) and by _process_creation (line 278).  shutil.copy2 opens the *)
(* source, opens the shadow file for writing, which empties it, and then   *)
(* writes the bytes; the .meta file written after it is read by nothing.   *)
(***************************************************************************)
\* Where create_shadow returns to, with its result (which no caller reads).
ShadowReturn(t, result) ==
    IF loc[t].kind = "modified"
    THEN /\ Goto(t, "m_finally")
         /\ loc' = [loc EXCEPT ![t].shadow_result = result, ![t].buffer = <<>>]
    ELSE Return(t)

\* lines 48-49
SExists(t) ==
    /\ pc[t] = "s_exists"
    /\ \E found \in FsRead(loc[t].file_path) :
          IF found = Absent
          THEN ShadowReturn(t, "no file")
          ELSE Goto(t, "s_open") /\ UNCHANGED loc
    /\ UNCHANGED <<file, shadow, records, processing, env, probe, main>>

\* line 55, first half: the source is opened (it may be gone, or a
\* directory) and the shadow file is opened for writing, which may fail.
SOpen(t) ==
    /\ pc[t] = "s_open"
    /\ \E found \in FsRead(loc[t].file_path) :
          \/ /\ found \in {Absent, IsDir}
             /\ ShadowReturn(t, "error")
             /\ UNCHANGED shadow
          \/ /\ found \notin {Absent, IsDir}
             /\ ShadowReturn(t, "error")
             /\ UNCHANGED shadow
          \/ /\ found \notin {Absent, IsDir}
             /\ shadow' = ShadowWrite(loc[t].file_path, <<>>)
             /\ loc' = [loc EXCEPT ![t].buffer = found.bytes]
             /\ Goto(t, "s_copy")
    /\ UNCHANGED <<file, records, processing, env, probe, main>>

\* line 55, second half, and lines 58-60: the bytes are written, or the
\* write fails and leaves the shadow file as it is; writing the .meta file
\* raises when the source is gone by then.
SCopy(t) ==
    /\ pc[t] = "s_copy"
    /\ \/ /\ shadow' = ShadowWrite(loc[t].file_path, loc[t].buffer)
          /\ \E found \in FsRead(loc[t].file_path) :
                ShadowReturn(t, IF found = Absent THEN "error" ELSE "ok")
       \/ /\ UNCHANGED shadow
          /\ ShadowReturn(t, "error")
    /\ UNCHANGED <<file, records, processing, env, probe, main>>

\* line 260: the finally clause; after it the pass returns, or the pending
\* exception leaves _process_modification and on_modified.
MFinally(t) ==
    /\ pc[t] = "m_finally"
    /\ processing' = processing \ {loc[t].file_path}
    /\ IF loc[t].raised /= ""
       THEN Escape(t, loc[t].raised)
       ELSE Return(t)
    /\ UNCHANGED <<file, shadow, records, env, probe, main>>

(***************************************************************************)
(* on_created and _process_creation, lines 262-278 and 289-290.            *)
(***************************************************************************)
\* line 289: time.sleep(0.1) ends.
CSleep(t) ==
    /\ pc[t] = "c_sleep"
    /\ Goto(t, "c_filter")
    /\ UNCHANGED <<file, shadow, records, processing, loc, env, probe, main>>

\* lines 264-265
CFilter(t) ==
    /\ pc[t] = "c_filter"
    /\ \E found \in FsRead(loc[t].file_path) :
          IF ShouldProcess(loc[t].file_path, found)
          THEN Goto(t, "c_exists") /\ UNCHANGED loc
          ELSE Return(t)
    /\ UNCHANGED <<file, shadow, records, processing, env, probe, main>>

\* line 267
CExists(t) ==
    /\ pc[t] = "c_exists"
    /\ \E found \in FsRead(loc[t].file_path) :
          IF found /= Absent
          THEN Goto(t, "c_size") /\ UNCHANGED loc
          ELSE Return(t)
    /\ UNCHANGED <<file, shadow, records, processing, env, probe, main>>

\* line 268: os.path.getsize raises when the file is gone; nothing catches it.
CSize(t) ==
    /\ pc[t] = "c_size"
    /\ \E found \in FsRead(loc[t].file_path) :
          IF found = Absent
          THEN Escape(t, "FileNotFoundError")
          ELSE /\ Goto(t, "c_record")
               /\ loc' = [loc EXCEPT ![t].size_after = Some(StatSize(found))]
    /\ UNCHANGED <<file, shadow, records, processing, env, probe, main>>

\* CreatedRow with the size of the new file given as size_before too.
CreatedRowWithSizeBefore(l) ==
    Row(l.file_path, "created", l.size_after, l.size_after, 0, 0)

\* The row a creation pass records, lines 269-271.
CreatedRow(l) == Row(l.file_path, "created", None, l.size_after, 0, 0)

\* lines 269-275: record_change inserts the row, or raises.
CRecord(t) ==
    /\ pc[t] = "c_record"
    /\ \/ /\ Escape(t, "sqlite3.Error")
          /\ UNCHANGED records
       \/ /\ records' = Append(records, CreatedRow(loc[t]))
          /\ loc' = [loc EXCEPT ![t] =
                        AtShadowCall([@ EXCEPT !.timestamp = Some(Len(records) + 1)])]
          /\ Goto(t, "s_exists")
    /\ UNCHANGED <<file, shadow, processing, env, probe, main>>

(***************************************************************************)
(* main, lines 322-331.  The observer is running from line 320 on.  After  *)
(* observer.stop() the watch service hands no further event to the         *)
(* handler; observer.join() returns when no thread of the observer is      *)
(* inside the handler any more (a thread that an exception has left is     *)
(* gone).                                                                  *)
(***************************************************************************)
\* A thread is inside on_modified / on_created.
InHandler(t) == pc[t] \notin {"idle", "raised"}

\* lines 325-327: KeyboardInterrupt ends the loop of line 323 and
\* observer.stop() is called.  The interrupt is a step of the environment.
MainInterrupt ==
    /\ main = "running"
    /\ env < MaxEnv
    /\ env' = env + 1
    /\ main' = "stopping"
    /\ UNCHANGED <<file, shadow, records, processing, pc, loc, probe>>

\* MainJoin that returns at once, whatever the threads are doing.
MainJoinNoWait ==
    /\ main = "stopping"
    /\ main' = "joined"
    /\ UNCHANGED <<file, shadow, records, processing, pc, loc, env, probe>>

\* line 329: observer.join() returns.
MainJoin ==
    /\ main = "stopping"
    /\ \A t \in Threads : ~InHandler(t)
    /\ main' = "joined"
    /\ UNCHANGED <<file, shadow, records, processing, pc, loc, env, probe>>

\* lines 330-331: database.close(), and main returns.
MainClose ==
    /\ main = "joined"
    /\ main' = "closed"
    /\ UNCHANGED <<file, shadow, records, processing, pc, loc, env, probe>>

(***************************************************************************)
(* The handler with its environment.                                       *)
(***************************************************************************)
Next ==
    \/ \E p \in NormalPaths, v \in WrittenValues : EnvWrite(p, v)
    \/ \E t \in Threads, p \in Paths, d \in BOOLEAN : OnModified(t, p, d)
    \/ \E t \in Threads, p \in Paths, d \in BOOLEAN : OnCreated(t, p, d)
    \/ \E t \in Threads : MCheck(t)
    \/ \E t \in Threads : MAdd(t)
    \/ \E t \in Threads : MFilter(t)
    \/ \E t \in Threads : MExists(t)
    \/ \E t \in Threads : MSize(t)
    \/ \E t \in Threads : MRead(t)
    \/ \E t \in Threads : MHasShadow(t)
    \/ \E t \in Threads : MGetContent(t)
    \/ \E t \in Threads : MGetSize(t)
    \/ \E t \in Threads : MRecord(t)
    \/ \E t \in Threads : MFinally(t)
    \/ \E t \in Threads : CSleep(t)
    \/ \E t \in Threads : CFilter(t)
    \/ \E t \in Threads : CExists(t)
    \/ \E t \in Threads : CSize(t)
    \/ \E t \in Threads : CRecord(t)
    \/ \E t \in Threads : SExists(t)
    \/ \E t \in Threads : SOpen(t)
    \/ \E t \in Threads : SCopy(t)
    \/ MainInterrupt
    \/ MainJoin
    \/ MainClose

Spec == Init /\ [][Next]_vars

(***************************************************************************)
(* Properties of the handler, checked under Spec.                          *)
(***************************************************************************)
\* Thread t runs _process_modification and has passed the test of line 198.
PastGuard(t) ==
    /\ loc[t].kind = "modified"
    /\ pc[t] \notin {"idle", "m_check", "raised"}

\* C1: two modification events for the same path are never both past the
\* guard check at the same instant: the test of line 198 and the add of line
\* 202 act as one atomic check-and-set.
C1_GuardExclusive ==
    \A t, u \in Threads :
        (t /= u /\ PastGuard(t) /\ PastGuard(u))
            => loc[t].file_path /= loc[u].file_path

\* A modification pass that found no shadow copy at line 222 has come to its
\* finally clause.
FirstObservationDone(t) ==
    /\ pc[t] = "m_finally"
    /\ loc[t].kind = "modified"
    /\ loc[t].has_shadow = Some(FALSE)

\* C2: a modification pass that finds no snapshot for its path writes no
\* record, and when it ends the path has a snapshot, unless the file was gone
\* or the copy failed when the snapshot was written.
C2_FirstObservation ==
    \A t \in Threads :
        FirstObservationDone(t)
            => /\ loc[t].timestamp = None
               /\ \/ HasShadow(loc[t].file_path)
                  \/ loc[t].shadow_result \in {"no file", "error"}

C2_Witness ==
    \E t \in Threads :
        /\ FirstObservationDone(t)
        /\ loc[t].shadow_result = "ok"
        /\ HasShadow(loc[t].file_path)
        /\ records = <<>>

\* The rows a step adds to file_changes.
NewRows == {records'[i] : i \in (Len(records) + 1)..Len(records')}

C3_RowsWellFormed ==
    \A i \in 1..Len(records) :
        /\ records[i].event_type = "created"
              => /\ records[i].size_before = None
                 /\ records[i].size_change = None
                 /\ records[i].lines_added = 0
                 /\ records[i].lines_deleted = 0
                 /\ records[i].lines_changed = 0
        /\ records[i].event_type = "modified"
              => records[i].size_before /= None

C3_SnapshotBeforeRow ==
    \A r \in NewRows : r.event_type = "modified" => HasShadow(r.file_path)

C4_ExclusionFilter ==
    \A p \in ExcludedPaths :
        /\ ~HasShadow(p)
        /\ \A i \in 1..Len(records) : records[i].file_path /= p

\* Both handlers have been at work on excluded paths.
C4_Witness ==
    /\ \E t \in Threads :
          /\ pc[t] = "m_finally"
          /\ loc[t].file_path = "/w/venv/a"
    /\ \E t \in Threads :
          /\ pc[t] = "c_filter"
          /\ loc[t].file_path = "/w/.x"

\* C5: a failure of record_change does not leave on_modified / on_created.
C5_StorageFailureContained ==
    \A t \in Threads : ~(pc[t] = "raised" /\ loc[t].raised = "sqlite3.Error")

\* The contents a complete shadow copy can have: those of the watched file.
CompleteSnapshots == {v.bytes : v \in WrittenValues \ {Absent}}

\* C6: what a pass reads of the snapshot of its path (lines 224-225) is the
\* content and the size of one complete snapshot, also while another pass
\* writes the snapshot of that path.
C6_AtomicSnapshot ==
    \A t \in Threads :
        pc[t] = "m_record"
            => \E b \in CompleteSnapshots :
                  /\ loc[t].old_content = Some(DecodeIgnore(b))
                  /\ loc[t].size_before = Some(ByteSize(b))

C10_Derived ==
    \A i \in 1..Len(records) :
        /\ records[i].lines_changed = records[i].lines_added + records[i].lines_deleted
        /\ records[i].size_change =
              IF records[i].size_before /= None /\ records[i].size_after /= None
              THEN Some(Val(records[i].size_after) - Val(records[i].size_before))
              ELSE None

C10_AppendOnly ==
    /\ Len(records') >= Len(records)
    /\ \A i \in 1..Len(records) : records'[i] = records[i]

\* C10: every row has lines_changed = lines_added + lines_deleted, and
\* size_change = size_after - size_before when both sizes are present, else
\* none; a row once written is never changed or removed.
C10_DerivedFields == []C10_Derived /\ [][C10_AppendOnly]_vars

C10_Witness ==
    /\ Len(records) >= 2
    /\ \E i \in 1..Len(records) :
          /\ records[i].size_change \notin {None, Some(0)}
          /\ records[i].lines_changed > 0
    /\ \E i \in 1..Len(records) : records[i].size_change = None

\* Thread t has called on_created and is in the settle delay of line 289.
InSettleDelay(t) == pc[t] = "c_sleep"

\* Thread t is free to be handed the next event.
CanTakeEvent(t) == pc[t] = "idle"

\* C11: the settle delay of a creation event does not hold up the thread
\* that hands events to on_created / on_modified: while the delay runs, that
\* thread is free to deliver the events of other paths.
C11_DelayDoesNotBlock ==
    \A t \in Threads : InSettleDelay(t) => CanTakeEvent(t)

C12_Quiescent ==
    main \in {"joined", "closed"} => \A t \in Threads : ~InHandler(t)

C12_NoNewWork ==
    /\ main /= "running"
          => \A t \in Threads : ~InHandler(t) => ~InHandler(t)'
    /\ main = "closed"
          => /\ records' = records
             /\ shadow' = shadow

CreationPass(t) ==
    /\ loc[t].kind = "created"
    /\ pc[t] \notin {"idle", "c_sleep", "raised"}

\* C13: a creation pass and any other pass, creation or modification, for
\* the same path are never in flight at the same time.
C13_CreationGuarded ==
    \A t, u \in Threads :
        (t /= u /\ CreationPass(t) /\ (CreationPass(u) \/ PastGuard(u)))
            => loc[t].file_path /= loc[u].file_path

\* Thread t runs _process_modification and has executed line 202: it is
\* between the add and the discard of its path.
HoldsGuard(t) ==
    /\ loc[t].kind = "modified"
    /\ pc[t] \notin {"idle", "m_check", "m_add", "raised"}

\* C14: a path is in the processing set exactly while a modification pass
\* for it is in flight, whatever way the passes end; the set is empty
\* whenever no handler is running.
C14_GuardReleased ==
    /\ (\A t \in Threads : ~InHandler(t)) => processing = {}
    /\ \A p \in Paths :
          p \in processing <=> \E t \in Threads : HoldsGuard(t) /\ loc[t].file_path = p

\* A modification pass that has read the new content of its file (line
\* 216) has come to its finally clause.
ReadPassDone(t) ==
    /\ pc[t] = "m_finally"
    /\ loc[t].kind = "modified"
    /\ loc[t].new_content /= None

\* C15: every modification pass that has read the new content of its file
\* ends by calling update_shadow, whether or not it wrote a row; afterwards
\* the path has a snapshot, unless the file was gone or the copy failed when
\* the snapshot was written.
C15_RefreshUnconditional ==
    \A t \in Threads :
        ReadPassDone(t)
            => /\ loc[t].shadow_result /= ""
               /\ \/ HasShadow(loc[t].file_path)
                  \/ loc[t].shadow_result \in {"no file", "error"}

\* In this step the modification pass of thread t completes its snapshot.
StoresSnapshot(t) ==
    /\ pc[t] = "s_copy"
    /\ loc[t].kind = "modified"
    /\ pc'[t] = "m_finally"
    /\ loc'[t].shadow_result = "ok"

C16_StoredIsRead ==
    \A t \in Threads :
        StoresSnapshot(t)
            => DecodeIgnore(shadow'[loc[t].file_path]) = Val(loc[t].new_content)

\* C16: the snapshot a modification pass stores holds the content that the
\* pass read at line 216 and diffed, also when another writer changes the
\* file while the pass is running.
C16_SnapshotIsDiffed == [][C16_StoredIsRead]_vars

\* In this step line 199 drops the modification event of thread t; the
\* watched file holds what it held when the event came in, and the filter
\* lets it through.
DropsEvent(t) ==
    /\ pc[t] = "m_check"
    /\ loc[t].file_path \in processing
    /\ pc'[t] = "idle"
    /\ loc[t].file_path \in DOMAIN file
    /\ loc[t].arrived = Some(file[loc[t].file_path])
    /\ ShouldProcess(loc[t].file_path, file[loc[t].file_path])

\* The pass of thread u has yet to read the file, or has read what the file
\* holds now.
ObservesCurrent(u) ==
    \/ pc[u] \in {"m_filter", "m_exists", "m_size", "m_read"}
    \/ loc[u].new_content = Some(DecodeIgnore(file[loc[u].file_path].bytes))

\* The pass of thread u has yet to copy the file to its snapshot, or has
\* copied what the file holds now.
SnapshotsCurrent(u) ==
    \/ pc[u] \in {"m_filter", "m_exists", "m_size", "m_read", "m_has",
                   "m_get_content", "m_get_size", "m_record", "s_exists", "s_open"}
    \/ /\ pc[u] = "s_copy"
       /\ loc[u].buffer = file[loc[u].file_path].bytes
    \/ /\ pc[u] = "m_finally"
       /\ HasShadow(loc[u].file_path)
       /\ shadow[loc[u].file_path] = file[loc[u].file_path].bytes

C17_DropIsCovered ==
    \A t, u \in Threads :
        (DropsEvent(t) /\ HoldsGuard(u) /\ loc[u].file_path = loc[t].file_path)
            => ObservesCurrent(u) /\ SnapshotsCurrent(u)

\* C17: when a modification event is dropped because a pass for its path is
\* in flight, that pass observes the content the file had when the dropped
\* event came in, and the snapshot it leaves is that content.
C17_DroppedIsSuperseded == [][C17_DropIsCovered]_vars

\* C18: when the file vanishes between the arrival of an event and the
\* reading of its size and content, the pass ends without an exception
\* leaving on_modified / on_created.
C18_TransientErrorAbandons ==
    \A t \in Threads : ~(pc[t] = "raised" /\ loc[t].raised = "FileNotFoundError")

\* In this step thread t executes lines 229-251.
RecordStep(t) ==
    /\ pc[t] = "m_record"
    /\ pc'[t] /= "m_record"

C20_RecordsNoChange ==
    \A t \in Threads :
        RecordStep(t)
            => /\ loc'[t].raised = ""
                     => /\ Len(records') = Len(records) + 1
                        /\ records'[Len(records')].file_path = loc[t].file_path
                        /\ records'[Len(records')].event_type = "modified"
               /\ loc[t].old_content = loc[t].new_content
                     => \A r \in NewRows :
                           /\ r.lines_added = 0
                           /\ r.lines_deleted = 0
                           /\ r.size_change = Some(0)

\* C20: a modification pass that finds a readable snapshot writes exactly
\* one 'modified' row unless an exception ends it, also when the new content
\* is identical to the snapshot; that row then has lines_added =
\* lines_deleted = 0 and size_change = 0.
C20_NoChangeRecorded == [][C20_RecordsNoChange]_vars

(***************************************************************************)
(* _compute_diff on its own: all pairs of texts of at most MaxLines lines  *)
(* taken from LinePool, and the pair of the end-to-end example.            *)
(***************************************************************************)
LinePool ==
    { <<"a", "\n">>, <<"b", "\n">>, <<"c", "\n">>,
      <<"+", "+", "x", "\n">>, <<"-", "-", "y", "\n">> }

Texts == {Concat(ls) : ls \in SeqsUpTo(LinePool, MaxLines)}

ExampleOld == <<"a", "\n", "b", "\n", "c", "\n">>
ExampleNew == <<"a", "\n", "x", "\n", "c", "\n", "d", "\n">>

InitDiff ==
    /\ InitHandler
    /\ \E pair \in (Texts \X Texts) \cup {<<ExampleOld, ExampleNew>>} :
          probe = [old_content |-> pair[1], new_content |-> pair[2], out |-> None]

ApplyDiff ==
    /\ probe.out = None
    /\ probe' = [probe EXCEPT !.out = Some(ComputeDiff(probe.old_content, probe.new_content))]
    /\ UNCHANGED <<file, shadow, records, processing, pc, loc, env, main>>

NextDiff == ApplyDiff

SpecDiff == InitDiff /\ [][NextDiff]_vars

\* C7: _compute_diff(A, B) = (x, y) implies _compute_diff(B, A) = (y, x).
C7_DiffSymmetry ==
    probe.out /= None
        => ComputeDiff(probe.new_content, probe.old_content)
              = <<Val(probe.out)[2], Val(probe.out)[1]>>

RECURSIVE LcsLen(_, _)
\* The length of a longest common subsequence of two sequences of lines.
LcsLen(a, b) ==
    IF a = <<>> \/ b = <<>> THEN 0
    ELSE IF Head(a) = Head(b)
         THEN 1 + LcsLen(Tail(a), Tail(b))
         ELSE Max2(LcsLen(Tail(a), b), LcsLen(a, Tail(b)))

\* C8: _compute_diff(old, new) = (|new| - |LCS|, |old| - |LCS|), the counts of
\* a line diff with fewest changed lines; for the example it is (2, 1).
C8_MatchesLcs ==
    probe.out /= None
        => LET old_lines == SplitLines(probe.old_content)
               new_lines == SplitLines(probe.new_content)
               lcs == LcsLen(old_lines, new_lines)
           IN  /\ Val(probe.out) = <<Len(new_lines) - lcs, Len(old_lines) - lcs>>
               /\ (probe.old_content = ExampleOld /\ probe.new_content = ExampleNew)
                     => Val(probe.out) = <<2, 1>>

\* C19: lines_added - lines_deleted = (lines of new) - (lines of old),
\* whatever characters the lines begin with, and identical texts give (0, 0).
C19_LineBalance ==
    probe.out /= None
        => /\ Val(probe.out)[1] - Val(probe.out)[2]
                 = Len(SplitLines(probe.new_content)) - Len(SplitLines(probe.old_content))
           /\ probe.old_content = probe.new_content => Val(probe.out) = <<0, 0>>

(***************************************************************************)
(* The magnitude rules on their own, for all sizes up to MaxSize.          *)
(***************************************************************************)
InitMagnitude ==
    /\ InitHandler
    /\ \E b \in 0..MaxSize, a \in 0..MaxSize :
          probe = [size_before |-> b, size_after |-> a, out |-> None]

ApplyMagnitude ==
    /\ probe.out = None
    /\ probe' = [probe EXCEPT !.out = Some(Magnitude(probe.size_before, probe.size_after))]
    /\ UNCHANGED <<file, shadow, records, processing, pc, loc, env, main>>

NextMagnitude == ApplyMagnitude

SpecMagnitude == InitMagnitude /\ [][NextMagnitude]_vars

\* The tags, as the magnitude rules name them.
ZeroedOut == [tag |-> "FILE ZEROED OUT", bytes |-> 0]
LargeDeletion(n) == [tag |-> "LARGE DELETION", bytes |-> n]
LargeAddition(n) == [tag |-> "LARGE ADDITION", bytes |-> n]

\* The first rule that matches, in the order of the claim.
FirstMatchingRule(size_before, size_after) ==
    CASE size_after = 0 /\ size_before > 0 -> ZeroedOut
      [] ~(size_after = 0 /\ size_before > 0)
         /\ size_before > 0 /\ 2 * size_after < size_before ->
            LargeDeletion(size_before - size_after)
      [] ~(size_after = 0 /\ size_before > 0)
         /\ ~(size_before > 0 /\ 2 * size_after < size_before)
         /\ size_before > 0 /\ size_after > 2 * size_before ->
            LargeAddition(size_after - size_before)
      [] OTHER -> NoTag

\* C9: the magnitude is the first matching rule and no other: zeroed-out,
\* else large-deletion, else large-addition, else none; (100, 0) is
\* zeroed-out, (100, 40) large-deletion 60, (100, 250) large-addition 150,
\* (100, 90) no tag.
C9_MagnitudePriority ==
    probe.out /= None
        => /\ Val(probe.out) = FirstMatchingRule(probe.size_before, probe.size_after)
           /\ (probe.size_before = 100 /\ probe.size_after = 0)
                 => Val(probe.out) = ZeroedOut
           /\ (probe.size_before = 100 /\ probe.size_after = 40)
                 => Val(probe.out) = LargeDeletion(60)
           /\ (probe.size_before = 100 /\ probe.size_after = 250)
                 => Val(probe.out) = LargeAddition(150)
           /\ (probe.size_before = 100 /\ probe.size_after = 90)
                 => Val(probe.out) = NoTag

C9_Witness ==
    /\ probe.size_before = 100
    /\ probe.size_after = 0
    /\ probe.out = Some(ZeroedOut)

====
